---- MODULE Spec2Model ----
(***************************************************************************)
(* A model of pytorchtextvae/datasets.py: the normalizer, the vocabulary   *)
(* builder (_setup_vocab), the word encoder (Lang), the per-line transform *)
(* (proc_line) and the producer / worker-pool pipeline (_setup_pairs,      *)
(* process).                                                               *)
(*                                                                         *)
(* A Python str is a sequence of characters; a character is a one-element  *)
(* TLA+ string, except the three non-ASCII characters the model knows,     *)
(* which are written by code point: "U+00E9" (e with acute), "U+00C9" (E   *)
(* with acute) and "U+0301" (the combining acute accent).                  *)
(***************************************************************************)
EXTENDS Integers, Sequences, FiniteSets, TLC

VARIABLES
    phase,           \* which entry point is running and how far it is
    MIN_LENGTH,      \* module global, set by prepare_pair_data
    MAX_LENGTH,      \* module global, set by prepare_pair_data
    reverse,         \* prepare_pair_data's reverse argument
    vocabulary_size, \* prepare_pair_data's / Lang's vocabulary_size argument
    corpus,          \* the elements the training split yields, in order
    the_words,       \* _setup_vocab's local list the_words
    WORDS,           \* module global of the parent process
    REVERSE_WORDS,   \* module global of the parent process
    line,            \* argument of a direct proc_line call
    ret,             \* what the last direct call returned
    lang,            \* the Lang object under test
    query,           \* argument of a Lang method call
    n_core,          \* number of pool workers
    maxsize,         \* maxsize of both queues
    provider,        \* what iter(datasplit) has still to yield
    curr_block,      \* _setup_pairs local
    q,               \* inbound queue
    oq,              \* outbound queue
    pairs,           \* _setup_pairs local, the returned list
    pc,              \* position of _setup_pairs
    sent,            \* sentinels put so far (the for loop of line 418)
    empty_checks,    \* _setup_pairs local
    wpc,             \* position of each worker inside process
    wr,              \* each worker's local r, waiting for oq.put
    wWORDS,          \* each worker process's copy of WORDS
    wREVERSE_WORDS,  \* each worker process's copy of REVERSE_WORDS
    wbuf,            \* results each worker's oq.put handed to the queue's feeder thread
    writing,         \* the worker whose feeder thread is blocked in a write, or 0
    pipe_cap,        \* how many results the pipe of the outbound queue holds whole
    df,              \* the rows of an AFDataSplit's data frame
    af,              \* an AFDataSplit and the position of its read_json_gen
    yielded,         \* what read_json_gen has yielded so far
    cache            \* the vocabulary cache file of prepare_pair_data

confvars == <<MIN_LENGTH, MAX_LENGTH, reverse, vocabulary_size, corpus>>
vocabvars == <<the_words, WORDS, REVERSE_WORDS>>
callvars == <<line, ret, lang, query>>
pipevars == <<n_core, maxsize, provider, curr_block, q, oq, pairs, pc, sent,
              empty_checks, wpc, wr, wWORDS, wREVERSE_WORDS,
              wbuf, writing, pipe_cap>>
extvars == <<df, af, yielded, cache>>
vars == <<phase, confvars, vocabvars, callvars, pipevars, extvars>>

(***************************************************************************)
(* Bounds of the model.                                                    *)
(***************************************************************************)
MaxLen == 4        \* longest raw line given to proc_line directly
MaxMinLength == 1  \* MIN_LENGTH is drawn from 0..MaxMinLength
MaxMaxLength == 3  \* MAX_LENGTH is drawn from 2..MaxMaxLength
MaxVocab == 4      \* vocabulary_size is drawn from 3..MaxVocab (2..MaxVocab + 1 in VocabSpec)
MaxCorpus == 2     \* a corpus given to _setup_vocab directly has at most MaxCorpus + 1 lines
MaxWords == 2      \* longest word list (count_1w.txt) given to Lang
MaxCap == 4        \* Lang's vocabulary_size is drawn from -1..MaxCap
MaxCore == 2       \* the pool has 1..MaxCore workers (N_CORE, 24 in the code)
QueuePerCore == 1  \* queue maxsize per worker (1000000 in the code)
BlockSize == 1     \* block_size (1000 in the code)
MaxLines == 4      \* longest corpus given to prepare_pair_data
MaxNorm == 3       \* longest string given to normalize_string directly
MaxRows == 2       \* most rows of an AFDataSplit data frame
MaxPipe == 1       \* the pipe of the outbound queue holds 0..MaxPipe results whole

(***************************************************************************)
(* Python values that are not strings.                                     *)
(***************************************************************************)
None == [py |-> "None", val |-> <<>>]
TypeError == [py |-> "TypeError", val |-> <<>>]
IndexError == [py |-> "IndexError", val |-> <<>>]
PyStr(s) == [py |-> "str", val |-> s]
PyTuple(t) == [py |-> "tuple", val |-> t]
PyInt(i) == [py |-> "int", val |-> i]
PyList(l) == [py |-> "list", val |-> l]
\* a scalar tensor: the object whose .item() is the integer i
PyTensor(i) == [py |-> "tensor", val |-> i]
AttributeError == [py |-> "AttributeError", val |-> <<>>]

SOS_token == 0
EOS_token == 1
UNK_token == 2

\* the number of idle checks the last loop of _setup_pairs must exceed (line 425)
IdleChecks == 10

(***************************************************************************)
(* Characters.                                                             *)
(***************************************************************************)
AsciiLower == {"a","b","c","d","e","f","g","h","i","j","k","l","m",
               "n","o","p","q","r","s","t","u","v","w","x","y","z"}
AsciiUpper == {"A","B","C","D","E","F","G","H","I","J","K","L","M",
               "N","O","P","Q","R","S","T","U","V","W","X","Y","Z"}
Digits == {"0","1","2","3","4","5","6","7","8","9"}
UpperSeq == <<"A","B","C","D","E","F","G","H","I","J","K","L","M",
              "N","O","P","Q","R","S","T","U","V","W","X","Y","Z">>
LowerSeq == <<"a","b","c","d","e","f","g","h","i","j","k","l","m",
              "n","o","p","q","r","s","t","u","v","w","x","y","z">>

\* str.isspace(): what strip() removes and what \s matches
IsSpace(c) == c \in {" ", "\t", "\n", "\r", "\f"}

\* \w of a str pattern: [a-zA-Z0-9_] and every other alphanumeric character
IsWordChar(c) == c \in AsciiLower \cup AsciiUpper \cup Digits \cup {"_", "U+00E9", "U+00C9"}

\* one character of str.lower()
LowerChar(c) ==
    IF c \in AsciiUpper THEN LowerSeq[CHOOSE i \in 1..26 : UpperSeq[i] = c]
    ELSE IF c = "U+00C9" THEN "U+00E9"
    ELSE c

\* canonical decomposition (NFD) of one character
NFD(c) == IF c = "U+00E9" THEN <<"e", "U+0301">>
          ELSE IF c = "U+00C9" THEN <<"E", "U+0301">>
          ELSE <<c>>

\* unicodedata.category(c) == 'Mn'
IsMn(c) == c = "U+0301"

(***************************************************************************)
(* str methods.                                                            *)
(***************************************************************************)
lower(s) == [i \in 1..Len(s) |-> LowerChar(s[i])]

RECURSIVE lstrip(_)
lstrip(s) == IF s # <<>> /\ IsSpace(Head(s)) THEN lstrip(Tail(s)) ELSE s

RECURSIVE rstrip(_)
rstrip(s) == IF s # <<>> /\ IsSpace(s[Len(s)]) THEN rstrip(SubSeq(s, 1, Len(s) - 1)) ELSE s

strip(s) == rstrip(lstrip(s))

\* s[::-1] and "".join(list(reversed(s)))
reversed(s) == [i \in 1..Len(s) |-> s[Len(s) + 1 - i]]

\* s.split(' '): cut at every single space; empty pieces are kept
RECURSIVE split(_)
split(s) ==
    IF \E i \in 1..Len(s) : s[i] = " "
    THEN LET i == CHOOSE j \in 1..Len(s) : s[j] = " " /\ \A k \in 1..(j - 1) : s[k] # " "
         IN  <<SubSeq(s, 1, i - 1)>> \o split(SubSeq(s, i + 1, Len(s)))
    ELSE <<s>>

\* " ".join(ws) for a list of strings
RECURSIVE join(_)
join(ws) == IF ws = <<>> THEN <<>>
            ELSE IF Len(ws) = 1 THEN ws[1]
            ELSE ws[1] \o <<" ">> \o join(Tail(ws))

(***************************************************************************)
(* unicode_to_ascii and normalize_string.                                  *)
(***************************************************************************)
RECURSIVE decompose(_)
decompose(s) == IF s = <<>> THEN <<>> ELSE NFD(Head(s)) \o decompose(Tail(s))

unicode_to_ascii(s) == SelectSeq(decompose(s), LAMBDA c : ~IsMn(c))

\* re.sub(r"'", r"", s)
sub_apostrophe(s) == SelectSeq(s, LAMBDA c : c # "'")

\* re.sub(r"([.!?])", r" \1", s)
RECURSIVE sub_punct(_)
sub_punct(s) ==
    IF s = <<>> THEN <<>>
    ELSE (IF Head(s) \in {".", "!", "?"} THEN <<" ", Head(s)>> ELSE <<Head(s)>>)
         \o sub_punct(Tail(s))

\* re.sub(r"[^\w]", r" ", s)
sub_nonword(s) == [i \in 1..Len(s) |-> IF IsWordChar(s[i]) THEN s[i] ELSE " "]

\* re.sub(r"\s+", r" ", s)
RECURSIVE sub_spaces(_)
sub_spaces(s) ==
    IF s = <<>> THEN <<>>
    ELSE IF IsSpace(Head(s)) THEN <<" ">> \o sub_spaces(lstrip(s))
    ELSE <<Head(s)>> \o sub_spaces(Tail(s))

\* normalize_string without its last two substitutions (lines 209-210)
normalize_string_pad_only(s) ==
    sub_punct(sub_apostrophe(unicode_to_ascii(strip(lower(s)))))

normalize_string(s) ==
    LET s1 == unicode_to_ascii(strip(lower(s)))
        s2 == sub_apostrophe(s1)
        s3 == sub_punct(s2)
        s4 == sub_nonword(s3)
    IN  rstrip(lstrip(strip(sub_spaces(s4))))

(***************************************************************************)
(* Small helpers.                                                          *)
(***************************************************************************)
Range(f) == {f[i] : i \in DOMAIN f}
Min(a, b) == IF a < b THEN a ELSE b
Max(a, b) == IF a > b THEN a ELSE b

\* lst[:n]
slice_to(lst, n) ==
    SubSeq(lst, 1, IF n >= 0 THEN Min(n, Len(lst)) ELSE Max(Len(lst) + n, 0))

\* every sequence over S of length at most n
RECURSIVE SeqsUpTo(_, _)
SeqsUpTo(S, n) ==
    IF n = 0 THEN {<<>>}
    ELSE LET shorter == SeqsUpTo(S, n - 1)
         IN  shorter \cup {Append(t, x) : t \in {u \in shorter : Len(u) = n - 1}, x \in S}

(***************************************************************************)
(* An element a data split yields: a str, or a (str, conditions) tuple.    *)
(***************************************************************************)
PlainElem(l) == [tup |-> FALSE, line |-> l, cond |-> <<>>]
CondElem(l, c) == [tup |-> TRUE, line |-> l, cond |-> c]

\* _get_line: the sentence of an element
_get_line(elem) == elem.line

(***************************************************************************)
(* collections.Counter: keys in first-seen order, and their counts.        *)
(***************************************************************************)
EmptyCounter == [keys |-> <<>>, cnt |-> <<>>]

counter_add(wc, w) ==
    IF \E i \in 1..Len(wc.keys) : wc.keys[i] = w
    THEN LET i == CHOOSE j \in 1..Len(wc.keys) : wc.keys[j] = w
         IN  [wc EXCEPT !.cnt[i] = @ + 1]
    ELSE [keys |-> Append(wc.keys, w), cnt |-> Append(wc.cnt, 1)]

RECURSIVE counter_update(_, _)
counter_update(wc, ws) ==
    IF ws = <<>> THEN wc ELSE counter_update(counter_add(wc, Head(ws)), Tail(ws))

\* wc.most_common(): the keys by count, largest first; sorted() is stable, so
\* keys of equal count stay in first-seen order
RECURSIVE most_common(_)
most_common(wc) ==
    IF wc.keys = <<>> THEN <<>>
    ELSE LET n == Len(wc.keys)
             i == CHOOSE j \in 1..n :
                      /\ \A k \in 1..n : wc.cnt[k] <= wc.cnt[j]
                      /\ \A k \in 1..(j - 1) : wc.cnt[k] < wc.cnt[j]
             drop(t) == SubSeq(t, 1, i - 1) \o SubSeq(t, i + 1, n)
         IN  <<wc.keys[i]>> \o most_common([keys |-> drop(wc.keys), cnt |-> drop(wc.cnt)])

(***************************************************************************)
(* _setup_vocab.                                                           *)
(***************************************************************************)
\* the test of line 311 (and of line 336) on the stripped raw line
raw_length_ok(l) ==
    MIN_LENGTH < Len(split(l)) /\ Len(split(l)) < MAX_LENGTH

\* the loop of lines 303-316: the Counter after the elements of es
RECURSIVE count_words(_, _)
count_words(wc, es) ==
    IF es = <<>> THEN wc
    ELSE LET l == rstrip(lstrip(strip(_get_line(Head(es)))))
         IN  IF raw_length_ok(l)
             THEN count_words(counter_update(wc, split(normalize_string(l))), Tail(es))
             ELSE count_words(wc, Tail(es))

\* lines 318-320
build_the_words(es, size) ==
    <<<<"S","O","S">>, <<"E","O","S">>, <<"U","N","K">>>>
        \o slice_to(most_common(count_words(EmptyCounter, es)), size - 3)

\* lines 319, 321
build_the_reverse_words(es, size) ==
    LET tw == build_the_words(es, size) IN [k \in 1..Len(tw) |-> reversed(tw[k])]

\* lines 323-327: a defaultdict whose keys map to themselves
table_of(ws) == [w \in Range(ws) |-> w]

\* unk_func, the default factory of both tables
unk_func == <<"U","N","K">>

\* d[w] on a defaultdict: the value, and the table afterwards (a miss stores the default)
dd_get(d, w) == IF w \in DOMAIN d THEN d[w] ELSE unk_func
dd_after(d, ws) == [w \in DOMAIN d \cup Range(ws) |-> dd_get(d, w)]

(***************************************************************************)
(* filter_pair, process_input_side, process_output_side, proc_line.        *)
(***************************************************************************)
filter_pair(p) ==
    /\ MIN_LENGTH < Len(split(p[1])) /\ Len(split(p[1])) < MAX_LENGTH
    /\ MIN_LENGTH < Len(split(p[2])) /\ Len(split(p[2])) < MAX_LENGTH

process_input_side(W, s) ==
    LET ws == split(s) IN join([i \in 1..Len(ws) |-> dd_get(W, ws[i])])

process_output_side(RW, s) ==
    LET ws == split(s) IN join([i \in 1..Len(ws) |-> dd_get(RW, ws[i])])

\* the pair proc_line builds before encoding it (lines 337-343)
raw_pair(l, rev) == IF rev THEN <<l, reversed(l)>> ELSE <<l, l>>

\* proc_line(ln, rev) in a process whose tables are W and RW: what it returns
\* (val) and the tables when it returns
proc_line(W, RW, ln, rev) ==
    LET stay == [val |-> None, WORDS |-> W, REVERSE_WORDS |-> RW]
        l0 == rstrip(lstrip(strip(ln)))
        l == normalize_string(l0)
        pair == raw_pair(l, rev)
    IN  IF Len(strip(ln)) = 0 THEN stay
        ELSE IF ~raw_length_ok(l0) THEN stay
        ELSE IF ~filter_pair(<<l, l>>) THEN stay
        ELSE [val |-> PyTuple(<<process_input_side(W, pair[1]),
                              process_output_side(RW, pair[2])>>),
              WORDS |-> dd_after(W, split(pair[1])),
              REVERSE_WORDS |-> dd_after(RW, split(pair[2]))]

(***************************************************************************)
(* class Lang.  An index is 0-based, as in the code; vocabulary[i] of the  *)
(* code is vocabulary[i + 1] here.  index_to_word reads index.item(): it    *)
(* works on a scalar tensor and raises AttributeError on a plain int.      *)
(***************************************************************************)
\* lines 217-220: the list before it is cut, from the words of count_1w.txt
lang_full_vocabulary(norvig, rev) ==
    IF rev
    THEN <<reversed(<<"S","O","S">>), reversed(<<"E","O","S">>), reversed(<<"U","N","K">>)>>
             \o [i \in 1..Len(norvig) |-> reversed(norvig[i])]
    ELSE <<<<"S","O","S">>, <<"E","O","S">>, <<"U","N","K">>>> \o norvig

\* the cut of lines 222-231, one entry too long
lang_vocabulary_off_by_one(norvig, size, rev) ==
    LET full == lang_full_vocabulary(norvig, rev)
    IN  slice_to(full, IF size < 0 THEN Len(full) ELSE size + 1)

\* lines 222-231
lang_vocabulary(norvig, size, rev) ==
    LET full == lang_full_vocabulary(norvig, rev)
    IN  slice_to(full, IF size < 0 THEN Len(full) ELSE size)

\* line 232: {v: k for k, v in enumerate(vocabulary)}; a later duplicate wins
lang_word2index(voc) ==
    [w \in Range(voc) |-> (CHOOSE i \in 1..Len(voc) :
                              voc[i] = w /\ \A j \in (i + 1)..Len(voc) : voc[j] # w) - 1]

\* line 233: {v: k for k, v in word2index.items()}
lang_index2word(voc) ==
    LET w2i == lang_word2index(voc)
    IN  [i \in {w2i[w] : w \in DOMAIN w2i} |-> CHOOSE w \in DOMAIN w2i : w2i[w] = i]

\* Lang.__init__
Lang(norvig, size, rev) ==
    LET voc == lang_vocabulary(norvig, size, rev)
    IN  [vocabulary |-> voc,
         word2index |-> lang_word2index(voc),
         index2word |-> lang_index2word(voc),
         words |-> DOMAIN lang_word2index(voc),
         reverse |-> rev]

\* self.word2index[self.vocabulary[UNK_token]]: an int, or IndexError when the
\* vocabulary has no entry UNK_token
unk_index(L) ==
    IF Len(L.vocabulary) > UNK_token
    THEN PyInt(L.word2index[L.vocabulary[UNK_token + 1]])
    ELSE IndexError

\* Lang.index_to_word: index.item() of line 242 raises AttributeError on an
\* int, which the except KeyError clause does not catch
index_to_word(L, index) ==
    IF index.py # "tensor" THEN AttributeError
    ELSE IF index.val \in DOMAIN L.index2word THEN PyStr(L.index2word[index.val])
    ELSE IF unk_index(L).py = "int" THEN PyStr(L.index2word[unk_index(L).val])
    ELSE unk_index(L)

\* Lang.word_to_index
word_to_index(L, word) ==
    IF lower(word) \in DOMAIN L.word2index THEN PyInt(L.word2index[lower(word)])
    ELSE unk_index(L)

\* Lang.word_check: the word, or an int
word_check(L, word) ==
    IF word \in DOMAIN L.word2index THEN PyStr(word) ELSE unk_index(L)

\* Lang.process_sentence: the list comprehension puts the int
\* word2index[vocabulary[UNK_token]] in the list for a word that is not in
\* self.words, and " ".join raises TypeError on a list that holds an int
process_sentence(L, sentence, normalize) ==
    LET s == IF normalize THEN normalize_string(sentence) ELSE sentence
        ws == split(s)
        missing == {i \in 1..Len(ws) : ws[i] \notin L.words}
    IN  IF missing = {} THEN PyStr(join(ws))
        ELSE IF unk_index(L).py = "IndexError" THEN IndexError
        ELSE TypeError

(***************************************************************************)
(* Values of the variables an entry point does not use.                    *)
(***************************************************************************)
NoLang == [vocabulary |-> <<>>, word2index |-> <<>>, index2word |-> <<>>,
           words |-> <<>>, reverse |-> FALSE]

\* WORDS and REVERSE_WORDS are None until _setup_vocab assigns them (lines
\* 278-279); the model writes the table without keys
NoTable == <<>>
NoVocab == the_words = <<>> /\ WORDS = NoTable /\ REVERSE_WORDS = NoTable
NoCall == line = <<>> /\ ret = None /\ lang = NoLang /\ query = None
\* no AFDataSplit and no cache file
NoCache == [py |-> "None", val |-> <<>>]
NoExt == df = <<>> /\ af = [pc |-> "none"] /\ yielded = <<>> /\ cache = NoCache
NoPipe ==
    /\ n_core = 0 /\ maxsize = 0 /\ provider = <<>> /\ curr_block = <<>>
    /\ q = <<>> /\ oq = <<>> /\ pairs = <<>> /\ pc = "off" /\ sent = 0
    /\ empty_checks = 0 /\ wpc = <<>> /\ wr = <<>>
    /\ wWORDS = <<>> /\ wREVERSE_WORDS = <<>>
    /\ wbuf = <<>> /\ writing = 0 /\ pipe_cap = 0

\* the arguments min_length, max_length of prepare_pair_data
LengthBounds == (0..MaxMinLength) \X (2..MaxMaxLength)

(***************************************************************************)
(* The vocabulary pass: _setup_vocab(trn_path, vocabulary_size, ...) over  *)
(* the corpus, in the parent process.                                      *)
(***************************************************************************)
SetupVocab ==
    /\ phase = "start"
    /\ the_words' = build_the_words(corpus, vocabulary_size)
    /\ WORDS' = table_of(the_words')
    /\ REVERSE_WORDS' = table_of(build_the_reverse_words(corpus, vocabulary_size))
    /\ phase' = "vocab"
    /\ UNCHANGED <<extvars, confvars, callvars, pipevars>>

(***************************************************************************)
(* VocabSpec: _setup_vocab on small corpora.                               *)
(***************************************************************************)
SampleLines ==
    { <<"a", " ", "b">>,              \* two words
      <<"b">>,                        \* one word
      <<"b", " ", "c", " ", "b">>,    \* a repeated word
      <<"A", ".", "c", "\n">>,        \* one piece that normalizes to two words
      <<"-", " ", "-">>,              \* two pieces that normalize to nothing
      <<"a", "\t", "b">>,             \* two words and one piece
      <<"a", " ", " ", "b">> }        \* two words and three pieces

VocabInit ==
    /\ phase = "start"
    /\ \E b \in LengthBounds : MIN_LENGTH = b[1] /\ MAX_LENGTH = b[2]
    /\ reverse = FALSE
    /\ vocabulary_size \in 2..(MaxVocab + 1)
    /\ corpus \in SeqsUpTo({PlainElem(l) : l \in SampleLines}, MaxCorpus + 1)
    /\ NoVocab /\ NoCall /\ NoPipe /\ NoExt

VocabNext == SetupVocab

VocabSpec == VocabInit /\ [][VocabNext]_vars

(***************************************************************************)
(* LineSpec: the vocabulary pass over a one-line corpus, then proc_line on *)
(* that line, called directly in the parent process.                       *)
(***************************************************************************)
LineAlphabet == {"a", "b", "A", " ", "\t", "-", ".", "'"}

LineInit ==
    /\ phase = "start"
    /\ \E b \in LengthBounds : MIN_LENGTH = b[1] /\ MAX_LENGTH = b[2]
    /\ reverse \in BOOLEAN
    /\ vocabulary_size \in 3..MaxVocab
    /\ line \in SeqsUpTo(LineAlphabet, MaxLen)
    /\ corpus = <<PlainElem(line)>>
    /\ ret = None /\ lang = NoLang /\ query = None
    /\ NoVocab /\ NoPipe /\ NoExt

ProcLineCall ==
    /\ phase = "vocab"
    /\ LET r == proc_line(WORDS, REVERSE_WORDS, line, reverse)
       IN  /\ ret' = r.val
           /\ WORDS' = r.WORDS
           /\ REVERSE_WORDS' = r.REVERSE_WORDS
    /\ phase' = "called"
    /\ UNCHANGED <<extvars, confvars, the_words, line, lang, query, pipevars>>

LineNext == SetupVocab \/ ProcLineCall

LineSpec == LineInit /\ [][LineNext]_vars

(***************************************************************************)
(* Properties of proc_line (LineSpec).                                     *)
(***************************************************************************)
\* len(s.split()): the number of maximal runs of non-whitespace characters
RECURSIVE ws_token_count(_)
ws_token_count(s) ==
    IF s = <<>> THEN 0
    ELSE IF IsSpace(Head(s)) THEN ws_token_count(Tail(s))
    ELSE IF Len(s) = 1 \/ IsSpace(s[2]) THEN 1 + ws_token_count(Tail(s))
    ELSE ws_token_count(Tail(s))

OutOfBounds(n) == n <= MIN_LENGTH \/ n >= MAX_LENGTH

\* C4 as stated: a line whose whitespace-token count is <= MIN_LENGTH or
\* >= MAX_LENGTH never yields a pair.
C4_AsStated ==
    (phase = "called" /\ OutOfBounds(ws_token_count(line))) => ret = None

\* C5 as stated: with reverse=true the output side of an emitted pair is the
\* character-reversal of its encoded input side, out-of-vocabulary words included.
C5_OutputIsReversedInput ==
    (phase = "called" /\ reverse /\ ret.py = "tuple")
        => ret.val[2] = reversed(ret.val[1])

(***************************************************************************)
(* Properties of _setup_vocab (VocabSpec).                                 *)
(***************************************************************************)
Reserved == <<<<"S","O","S">>, <<"E","O","S">>, <<"U","N","K">>>>

\* the lines that qualify: whitespace-token count strictly between the bounds
QualifyingLines ==
    {e.line : e \in {x \in Range(corpus) : ~OutOfBounds(ws_token_count(x.line))}}

\* the words of a line: the whitespace tokens of its normalized form
WordsOf(l) == {w \in Range(split(normalize_string(l))) : w # <<>>}

DistinctQualifyingWords == UNION {WordsOf(l) : l \in QualifyingLines}

NoDuplicates(t) == \A i, j \in 1..Len(t) : t[i] = t[j] => i = j

\* C7 as stated: for vocabulary_size k >= 3 the vocabulary has length
\* min(k, 3 + number of distinct words in qualifying lines), its first three
\* entries are SOS, EOS, UNK in that order, it has no duplicates, and it is
\* exactly the three reserved tokens when no line qualifies.
C7_VocabularyShape ==
    (phase = "vocab" /\ vocabulary_size >= 3) =>
        /\ Len(the_words) = Min(vocabulary_size, 3 + Cardinality(DistinctQualifyingWords))
        /\ SubSeq(the_words, 1, 3) = Reserved
        /\ NoDuplicates(the_words)
        /\ QualifyingLines = {} => the_words = Reserved

(***************************************************************************)
(* LangSpec: a Lang is built from a word list and a size cap, then one of  *)
(* its methods is called.                                                  *)
(***************************************************************************)
LangWords == {<<"a">>, <<"b">>, <<"a", "b">>}
QueryWords == {<<"a">>, <<"A">>, <<"c">>, <<"B", "a">>, <<"U","N","K">>, <<"K","N","U">>}
QuerySentences == {<<"a", " ", "b">>, <<"a", " ", "c">>, <<"A">>, <<"b", ".">>, <<>>}

LangInit ==
    /\ phase = "start"
    /\ MIN_LENGTH = 0 /\ MAX_LENGTH = 0
    /\ reverse \in BOOLEAN
    /\ vocabulary_size \in (-1)..MaxCap
    /\ corpus \in SeqsUpTo(LangWords, MaxWords)  \* the words of count_1w.txt
    /\ NoVocab /\ NoCall /\ NoPipe /\ NoExt

LangConstruct ==
    /\ phase = "start"
    /\ lang' = Lang(corpus, vocabulary_size, reverse)
    /\ phase' = "lang"
    /\ UNCHANGED <<extvars, confvars, vocabvars, line, ret, query, pipevars>>

CallFrame(name) ==
    /\ phase = "lang"
    /\ phase' = name
    /\ UNCHANGED <<extvars, confvars, vocabvars, line, lang, pipevars>>

WordToIndexCall ==
    \E w \in QueryWords :
        /\ CallFrame("word_to_index")
        /\ query' = PyStr(w)
        /\ ret' = word_to_index(lang, w)

\* index_to_word called with a scalar tensor or with a plain int
IndexToWordCall ==
    \E i \in (-1)..(MaxCap + 1) : \E index \in {PyTensor(i), PyInt(i)} :
        /\ CallFrame("index_to_word")
        /\ query' = index
        /\ ret' = index_to_word(lang, index)

\* index_to_word(word_to_index(w)): the int word_to_index returns is passed
\* on as it is; an exception of the inner call propagates
RoundTripCall ==
    \E w \in QueryWords :
        /\ CallFrame("round_trip")
        /\ query' = PyStr(w)
        /\ ret' = LET i == word_to_index(lang, w)
                  IN  IF i.py = "int" THEN index_to_word(lang, i) ELSE i

ProcessSentenceCall ==
    \E s \in QuerySentences, n \in BOOLEAN :
        /\ CallFrame("process_sentence")
        /\ query' = [py |-> "args", val |-> s, normalize |-> n]
        /\ ret' = process_sentence(lang, s, n)

LangNext ==
    \/ LangConstruct
    \/ WordToIndexCall
    \/ IndexToWordCall
    \/ RoundTripCall
    \/ ProcessSentenceCall

LangSpec == LangInit /\ [][LangNext]_vars

\* the third reserved token as the constructor writes it
UnknownToken(L) == IF L.reverse THEN reversed(<<"U","N","K">>) ELSE <<"U","N","K">>
ReservedOf(L) ==
    IF L.reverse
    THEN <<reversed(<<"S","O","S">>), reversed(<<"E","O","S">>), reversed(<<"U","N","K">>)>>
    ELSE Reserved

\* C8 as stated: for a word that is not an entry of the vocabulary,
\* index_to_word(word_to_index(w)) returns the UNKNOWN token.
C8_AsStated ==
    (phase = "round_trip" /\ query.val \notin Range(lang.vocabulary))
        => ret = PyStr(UnknownToken(lang))

\* what C9 says process_sentence returns
EncodedAsStated(L, s) ==
    LET ws == split(s)
    IN  join([i \in 1..Len(ws) |-> IF ws[i] \in Range(L.vocabulary) THEN ws[i]
                                   ELSE UnknownToken(L)])

\* C9 as stated: process_sentence returns the sentence with every
\* out-of-vocabulary token replaced by the UNKNOWN token, and never raises.
C9_AsStated ==
    phase = "process_sentence" =>
        ret = PyStr(EncodedAsStated(lang, IF query.normalize
                                        THEN normalize_string(query.val)
                                        ELSE query.val))

FirstEntries(list, cap) == IF cap < 0 THEN list ELSE SubSeq(list, 1, Min(cap, Len(list)))

LangContract ==
    /\ lang.vocabulary = FirstEntries(lang_full_vocabulary(corpus, reverse), vocabulary_size)
    /\ Len(lang.vocabulary) >= 3
    /\ SubSeq(lang.vocabulary, 1, 3) = ReservedOf(lang)
    /\ (phase = "word_to_index" /\ lower(query.val) \notin Range(lang.vocabulary))
          => (ret.py = "int" /\ ret.val \in DOMAIN lang.index2word
              /\ lang.index2word[ret.val] = UnknownToken(lang))
    /\ (phase = "index_to_word" /\ query.py = "tensor"
           /\ query.val \notin DOMAIN lang.index2word)
          => ret = PyStr(UnknownToken(lang))

\* C10 as stated: for every size cap the vocabulary is the first cap entries,
\* the reserved tokens are at indices 0, 1, 2, and both lookups resolve a miss
\* to UNKNOWN without raising.
C10_AsStated == phase \notin {"start"} => LangContract

\* C10, amended: the same for every size cap that is at least 3 or negative
\* (a negative cap keeps the whole list), index_to_word being given a scalar
\* tensor: a plain int makes it raise AttributeError.
C10_CapAtLeastThree ==
    (phase \notin {"start"} /\ (vocabulary_size >= 3 \/ vocabulary_size < 0)) => LangContract

\* a list cut by its cap, and an index that misses
C10_Witness ==
    /\ phase = "index_to_word" /\ query.py = "tensor"
    /\ vocabulary_size >= 3
    /\ Len(lang_full_vocabulary(corpus, reverse)) > vocabulary_size
    /\ query.val \notin DOMAIN lang.index2word
    /\ ret = PyStr(UnknownToken(lang))

(***************************************************************************)
(* process: the transform a worker applies to one batch (lines 358-361),   *)
(* in a process whose tables are W and RW.                                 *)
(***************************************************************************)
\* proc_line(s[0], True) or proc_line(s, True): the flag is the literal True
process_reverse_flag == TRUE

RECURSIVE process_batch(_, _, _)
process_batch(W, RW, stuff) ==
    IF stuff = <<>> THEN [r |-> <<>>, WORDS |-> W, REVERSE_WORDS |-> RW]
    ELSE LET s == Head(stuff)
             one == proc_line(W, RW, s.line, process_reverse_flag)
             rest == process_batch(one.WORDS, one.REVERSE_WORDS, Tail(stuff))
             ri == IF one.val = None THEN <<>>
                   ELSE IF s.tup THEN <<Append(one.val.val, s.cond)>>
                   ELSE <<one.val.val>>
         IN  [rest EXCEPT !.r = ri \o @]

(***************************************************************************)
(* prepare_pair_data and _setup_pairs.                                     *)
(***************************************************************************)
block_size == BlockSize
Workers == 1..n_core
\* the inbound queue: a put blocks while maxsize batches wait to be taken. Its
\* feeder thread runs in the parent, which outlives the pool, and a worker's
\* q.get() blocks until the batch has arrived: the delay of that thread is
\* the worker being slow, and q is written as one sequence.
Full(queue) == Len(queue) >= maxsize

\* the outbound queue, an mp.Queue written by the workers: oq.put(r) takes a
\* slot of the queue's semaphore, hands r to the feeder thread of the worker
\* process (wbuf) and returns; the feeder thread writes r to the pipe (oq),
\* where the parent's oq.empty() and oq.get() see it; oq.get() gives the slot
\* back.  A result the pipe cannot hold whole stays in wbuf, its writer
\* blocked (writing), until the parent reads.
RECURSIVE SumLen(_, _)
SumLen(f, S) == IF S = {} THEN 0
                ELSE LET w == CHOOSE x \in S : TRUE IN Len(f[w]) + SumLen(f, S \ {w})
OutPending == SumLen(wbuf, Workers) + Len(oq) - (IF writing = 0 THEN 0 ELSE 1)
FullOut == OutPending >= maxsize

\* what oq.get() leaves behind: the head of the pipe is gone, and the room it
\* frees lets a blocked writer finish its write
AfterGet ==
    /\ oq' = Tail(oq)
    /\ writing' = 0
    /\ wbuf' = IF writing = 0 THEN wbuf ELSE [wbuf EXCEPT ![writing] = Tail(@)]

PlainElems == {PlainElem(<<"a", " ", "b">>), PlainElem(<<"b">>)}
CondElems == {CondElem(<<"a", " ", "b">>, <<1, 0>>), CondElem(<<"b", " ", "a">>, <<0, 1>>)}

Init ==
    /\ phase = "start"
    /\ MIN_LENGTH = 1 /\ MAX_LENGTH = 3
    /\ reverse \in BOOLEAN
    /\ vocabulary_size \in {4, 5}
    /\ corpus \in SeqsUpTo(PlainElems, MaxLines) \cup SeqsUpTo(CondElems, BlockSize + 1)
    /\ n_core \in 1..MaxCore
    /\ maxsize = QueuePerCore * n_core
    /\ provider = <<>> /\ curr_block = <<>>
    /\ q = <<>> /\ oq = <<>> /\ pairs = <<>> /\ pc = "off" /\ sent = 0
    /\ empty_checks = 0 /\ wpc = <<>> /\ wr = <<>>
    /\ wWORDS = <<>> /\ wREVERSE_WORDS = <<>>
    /\ wbuf = <<>> /\ writing = 0 /\ pipe_cap \in 0..MaxPipe
    /\ NoVocab /\ NoCall /\ NoExt

\* lines 369-389: the queues, and the pool whose workers are forked with the
\* parent's tables and start in process()
StartPool ==
    /\ phase = "vocab"
    /\ phase' = "pool"
    /\ provider' = corpus
    /\ curr_block' = <<>> /\ pairs' = <<>>
    /\ q' = <<>> /\ oq' = <<>>
    /\ wpc' = [w \in Workers |-> "get"]
    /\ wr' = [w \in Workers |-> <<>>]
    /\ wWORDS' = [w \in Workers |-> WORDS]
    /\ wREVERSE_WORDS' = [w \in Workers |-> REVERSE_WORDS]
    /\ wbuf' = [w \in Workers |-> <<>>] /\ writing' = 0
    /\ pc' = "stream"
    /\ UNCHANGED <<extvars, pipe_cap, confvars, vocabvars, callvars, n_core, maxsize, sent, empty_checks>>

\* lines 391-393: the next element of the provider
Produce ==
    /\ pc = "stream" /\ provider # <<>>
    /\ curr_block' = Append(curr_block, Head(provider))
    /\ provider' = Tail(provider)
    /\ pc' = IF Len(curr_block') > block_size THEN "put_block" ELSE "stream"
    /\ UNCHANGED <<extvars, wbuf, writing, pipe_cap, phase, confvars, vocabvars, callvars, n_core, maxsize, q, oq, pairs,
                   sent, empty_checks, wpc, wr, wWORDS, wREVERSE_WORDS>>

\* lines 395-396: q.put(curr_block) blocks while the queue is full
PutBlock ==
    /\ pc = "put_block" /\ ~Full(q)
    /\ q' = Append(q, PyList(curr_block))
    /\ curr_block' = <<>>
    /\ pc' = "stream"
    /\ UNCHANGED <<extvars, wbuf, writing, pipe_cap, phase, confvars, vocabvars, callvars, n_core, maxsize, provider, oq,
                   pairs, sent, empty_checks, wpc, wr, wWORDS, wREVERSE_WORDS>>

\* lines 398-403: when the timer says so, oq.get() until it raises Empty
DrainGet ==
    /\ pc \in {"stream", "drain"} /\ oq # <<>>
    /\ pairs' = pairs \o Head(oq)
    /\ AfterGet
    /\ pc' = "drain"
    /\ UNCHANGED <<extvars, pipe_cap, phase, confvars, vocabvars, callvars, n_core, maxsize, provider,
                   curr_block, q, sent, empty_checks, wpc, wr, wWORDS, wREVERSE_WORDS>>

\* lines 404-405: Empty ends the drain
DrainEmpty ==
    /\ pc = "drain" /\ oq = <<>>
    /\ pc' = "stream"
    /\ UNCHANGED <<extvars, wbuf, writing, pipe_cap, phase, confvars, vocabvars, callvars, n_core, maxsize, provider,
                   curr_block, q, oq, pairs, sent, empty_checks, wpc, wr, wWORDS,
                   wREVERSE_WORDS>>

\* the for loop of line 391 ends
LoopExit ==
    /\ pc = "stream" /\ provider = <<>>
    /\ pc' = "put_final"
    /\ UNCHANGED <<extvars, wbuf, writing, pipe_cap, phase, confvars, vocabvars, callvars, n_core, maxsize, provider,
                   curr_block, q, oq, pairs, sent, empty_checks, wpc, wr, wWORDS,
                   wREVERSE_WORDS>>

\* line 416: q.put(curr_block), whatever curr_block holds
PutFinal ==
    /\ pc = "put_final" /\ ~Full(q)
    /\ q' = Append(q, PyList(curr_block))
    /\ sent' = 0
    /\ pc' = "sentinels"
    /\ UNCHANGED <<extvars, wbuf, writing, pipe_cap, phase, confvars, vocabvars, callvars, n_core, maxsize, provider,
                   curr_block, oq, pairs, empty_checks, wpc, wr, wWORDS, wREVERSE_WORDS>>

\* the loop of line 418 run one time too few: range(N_CORE - 1)
PutSentinelOneShort ==
    /\ pc = "sentinels" /\ ~Full(q)
    /\ IF n_core = 1
       THEN UNCHANGED <<q, sent>>
       ELSE q' = Append(q, None) /\ sent' = sent + 1
    /\ pc' = IF sent' >= n_core - 1 THEN "finalize" ELSE "sentinels"
    /\ empty_checks' = 0
    /\ UNCHANGED <<extvars, wbuf, writing, pipe_cap, phase, confvars, vocabvars, callvars, n_core, maxsize, provider,
                   curr_block, oq, pairs, wpc, wr, wWORDS, wREVERSE_WORDS>>

\* a sentinel that jumps the queue instead of joining its end
PutSentinelAtFront ==
    /\ pc = "sentinels" /\ ~Full(q)
    /\ q' = <<None>> \o q
    /\ sent' = sent + 1
    /\ pc' = IF sent' = n_core THEN "finalize" ELSE "sentinels"
    /\ empty_checks' = 0
    /\ UNCHANGED <<extvars, wbuf, writing, pipe_cap, phase, confvars, vocabvars, callvars, n_core, maxsize, provider,
                   curr_block, oq, pairs, wpc, wr, wWORDS, wREVERSE_WORDS>>

\* lines 418-421: one q.put(None) per worker, then the locals of the last loop
PutSentinel ==
    /\ pc = "sentinels" /\ ~Full(q)
    /\ q' = Append(q, None)
    /\ sent' = sent + 1
    /\ pc' = IF sent' = n_core THEN "finalize" ELSE "sentinels"
    /\ empty_checks' = 0
    /\ UNCHANGED <<extvars, wbuf, writing, pipe_cap, phase, confvars, vocabvars, callvars, n_core, maxsize, provider,
                   curr_block, oq, pairs, wpc, wr, wWORDS, wREVERSE_WORDS>>

\* the loop left one idle check early: empty_checks >= 10
FinalizeBreakEarly ==
    /\ pc = "finalize" /\ empty_checks >= IdleChecks
    /\ pc' = "join"
    /\ UNCHANGED <<extvars, wbuf, writing, pipe_cap, phase, confvars, vocabvars, callvars, n_core, maxsize, provider,
                   curr_block, q, oq, pairs, sent, empty_checks, wpc, wr, wWORDS,
                   wREVERSE_WORDS>>

\* lines 425-426, 444-446: more than IdleChecks idle checks end the loop, and
\* pool.close() lets the workers that have left process() end
FinalizeBreak ==
    /\ pc = "finalize" /\ empty_checks > IdleChecks
    /\ pc' = "join"
    /\ UNCHANGED <<extvars, wbuf, writing, pipe_cap, phase, confvars, vocabvars, callvars, n_core, maxsize, provider,
                   curr_block, q, oq, pairs, sent, empty_checks, wpc, wr, wWORDS,
                   wREVERSE_WORDS>>

\* lines 431-437: the queue is not empty; every oq.get() that returns extends
\* pairs and resets empty_checks
FinalizeGet ==
    /\ \/ pc = "finalize" /\ empty_checks <= IdleChecks
       \/ pc = "fin_drain"
    /\ oq # <<>>
    /\ pairs' = pairs \o Head(oq)
    /\ AfterGet
    /\ empty_checks' = 0
    /\ pc' = "fin_drain"
    /\ UNCHANGED <<extvars, pipe_cap, phase, confvars, vocabvars, callvars, n_core, maxsize, provider,
                   curr_block, q, sent, wpc, wr, wWORDS, wREVERSE_WORDS>>

\* lines 438-440: Empty ends the inner loop
FinalizeGetEmpty ==
    /\ pc = "fin_drain" /\ oq = <<>>
    /\ pc' = "finalize"
    /\ UNCHANGED <<extvars, wbuf, writing, pipe_cap, phase, confvars, vocabvars, callvars, n_core, maxsize, provider,
                   curr_block, q, oq, pairs, sent, empty_checks, wpc, wr, wWORDS,
                   wREVERSE_WORDS>>

\* line 431: "not oq.empty()" is false, on to the elif
FinalizeSeesEmpty ==
    /\ pc = "finalize" /\ empty_checks <= IdleChecks
    /\ oq = <<>>
    /\ pc' = "fin_elif"
    /\ UNCHANGED <<extvars, wbuf, writing, pipe_cap, phase, confvars, vocabvars, callvars, n_core, maxsize, provider,
                   curr_block, q, oq, pairs, sent, empty_checks, wpc, wr, wWORDS,
                   wREVERSE_WORDS>>

\* lines 441-443: the second oq.empty() is true: one more idle check, and a sleep
FinalizeIdle ==
    /\ pc = "fin_elif" /\ oq = <<>>
    /\ empty_checks' = empty_checks + 1
    /\ pc' = "finalize"
    /\ UNCHANGED <<extvars, wbuf, writing, pipe_cap, phase, confvars, vocabvars, callvars, n_core, maxsize, provider,
                   curr_block, q, oq, pairs, sent, wpc, wr, wWORDS, wREVERSE_WORDS>>

\* lines 431, 441: a worker put a result between the two oq.empty() calls, so
\* neither branch runs
FinalizeNeither ==
    /\ pc = "fin_elif" /\ oq # <<>>
    /\ pc' = "finalize"
    /\ UNCHANGED <<extvars, wbuf, writing, pipe_cap, phase, confvars, vocabvars, callvars, n_core, maxsize, provider,
                   curr_block, q, oq, pairs, sent, empty_checks, wpc, wr, wWORDS,
                   wREVERSE_WORDS>>

\* every worker has taken its sentinel and left process()
AllExited == \A w \in Workers : wpc[w] \in {"exited", "ended"}

\* every worker process has ended
AllEnded == \A w \in Workers : wpc[w] = "ended"

\* lines 447-449: pool.join() returns once every worker process has ended, and
\* pairs is returned
Join ==
    /\ pc = "join" /\ AllEnded
    /\ pc' = "done"
    /\ UNCHANGED <<extvars, wbuf, writing, pipe_cap, phase, confvars, vocabvars, callvars, n_core, maxsize, provider,
                   curr_block, q, oq, pairs, sent, empty_checks, wpc, wr, wWORDS,
                   wREVERSE_WORDS>>

(***************************************************************************)
(* process(q, oq, iolock), run by every worker of the pool.                *)
(***************************************************************************)
\* lines 355-357: q.get() returns None
WorkerTakeSentinel(w) ==
    /\ phase = "pool" /\ wpc[w] = "get"
    /\ q # <<>> /\ Head(q) = None
    /\ q' = Tail(q)
    /\ wpc' = [wpc EXCEPT ![w] = "exited"]
    /\ UNCHANGED <<extvars, wbuf, writing, pipe_cap, phase, confvars, vocabvars, callvars, n_core, maxsize, provider,
                   curr_block, oq, pairs, pc, sent, empty_checks, wr, wWORDS,
                   wREVERSE_WORDS>>

\* process without the test of line 362: oq.put(r) whatever r holds
WorkerTakeBatchAlwaysPut(w) ==
    /\ phase = "pool" /\ wpc[w] = "get"
    /\ q # <<>> /\ Head(q) # None
    /\ q' = Tail(q)
    /\ LET out == process_batch(wWORDS[w], wREVERSE_WORDS[w], Head(q).val)
       IN  /\ wr' = [wr EXCEPT ![w] = out.r]
           /\ wWORDS' = [wWORDS EXCEPT ![w] = out.WORDS]
           /\ wREVERSE_WORDS' = [wREVERSE_WORDS EXCEPT ![w] = out.REVERSE_WORDS]
           /\ wpc' = [wpc EXCEPT ![w] = "put"]
    /\ UNCHANGED <<extvars, wbuf, writing, pipe_cap, phase, confvars, vocabvars, callvars, n_core, maxsize, provider,
                   curr_block, oq, pairs, pc, sent, empty_checks>>

\* lines 355-362: q.get() returns a batch, which is transformed
WorkerTakeBatch(w) ==
    /\ phase = "pool" /\ wpc[w] = "get"
    /\ q # <<>> /\ Head(q) # None
    /\ q' = Tail(q)
    /\ LET out == process_batch(wWORDS[w], wREVERSE_WORDS[w], Head(q).val)
       IN  /\ wr' = [wr EXCEPT ![w] = out.r]
           /\ wWORDS' = [wWORDS EXCEPT ![w] = out.WORDS]
           /\ wREVERSE_WORDS' = [wREVERSE_WORDS EXCEPT ![w] = out.REVERSE_WORDS]
           /\ wpc' = [wpc EXCEPT ![w] = IF Len(out.r) > 0 THEN "put" ELSE "get"]
    /\ UNCHANGED <<extvars, wbuf, writing, pipe_cap, phase, confvars, vocabvars, callvars, n_core, maxsize, provider,
                   curr_block, oq, pairs, pc, sent, empty_checks>>

\* line 363: oq.put(r) blocks while the queue is full, then leaves r with the
\* feeder thread and returns
WorkerPut(w) ==
    /\ phase = "pool" /\ wpc[w] = "put"
    /\ ~FullOut
    /\ wbuf' = [wbuf EXCEPT ![w] = Append(@, wr[w])]
    /\ wr' = [wr EXCEPT ![w] = <<>>]
    /\ wpc' = [wpc EXCEPT ![w] = "get"]
    /\ UNCHANGED <<extvars, writing, pipe_cap, phase, confvars, vocabvars, callvars,
                   n_core, maxsize, provider, curr_block, q, oq, pairs, pc, sent,
                   empty_checks, wWORDS, wREVERSE_WORDS>>

\* the feeder thread of worker w writes its oldest result to the pipe: whole
\* when the pipe has room for it, otherwise as much as fits, and then it stays
\* blocked in the write
FeederSend(w) ==
    /\ phase = "pool" /\ wbuf[w] # <<>> /\ writing = 0
    /\ Len(oq) <= pipe_cap
    /\ oq' = Append(oq, Head(wbuf[w]))
    /\ IF Len(oq) < pipe_cap
       THEN wbuf' = [wbuf EXCEPT ![w] = Tail(@)] /\ writing' = 0
       ELSE wbuf' = wbuf /\ writing' = w
    /\ UNCHANGED <<extvars, pipe_cap, phase, confvars, vocabvars, callvars, n_core,
                   maxsize, provider, curr_block, q, pairs, pc, sent, empty_checks,
                   wpc, wr, wWORDS, wREVERSE_WORDS>>

\* after pool.close() a worker that has left process() ends; the process
\* waits for its feeder thread to have written everything
WorkerEnd(w) ==
    /\ phase = "pool" /\ pc = "join"
    /\ wpc[w] = "exited" /\ wbuf[w] = <<>>
    /\ wpc' = [wpc EXCEPT ![w] = "ended"]
    /\ UNCHANGED <<extvars, wbuf, writing, pipe_cap, phase, confvars, vocabvars,
                   callvars, n_core, maxsize, provider, curr_block, q, oq, pairs, pc,
                   sent, empty_checks, wr, wWORDS, wREVERSE_WORDS>>

Worker(w) ==
    \/ WorkerTakeSentinel(w) \/ WorkerTakeBatch(w) \/ WorkerPut(w)
    \/ FeederSend(w) \/ WorkerEnd(w)

\* what a worker process does besides running process()
Background == \E w \in Workers : FeederSend(w) \/ WorkerEnd(w)

Orchestrator ==
    \/ Produce \/ PutBlock \/ DrainGet \/ DrainEmpty \/ LoopExit \/ PutFinal
    \/ PutSentinel \/ FinalizeBreak \/ FinalizeGet \/ FinalizeGetEmpty
    \/ FinalizeSeesEmpty \/ FinalizeIdle \/ FinalizeNeither \/ Join

Next ==
    \/ SetupVocab
    \/ StartPool
    \/ Produce
    \/ PutBlock
    \/ DrainGet
    \/ DrainEmpty
    \/ LoopExit
    \/ PutFinal
    \/ PutSentinel
    \/ FinalizeBreak
    \/ FinalizeGet
    \/ FinalizeGetEmpty
    \/ FinalizeSeesEmpty
    \/ FinalizeIdle
    \/ FinalizeNeither
    \/ Join
    \/ \E w \in Workers : WorkerTakeSentinel(w)
    \/ \E w \in Workers : WorkerTakeBatch(w)
    \/ \E w \in Workers : WorkerPut(w)
    \/ \E w \in Workers : FeederSend(w)
    \/ \E w \in Workers : WorkerEnd(w)

Spec == Init /\ [][Next]_vars

\* the scheduler keeps running the parent process while _setup_pairs can take
\* a step, and the feeder threads and the exit of the worker processes
FairSpec == Spec /\ WF_vars(Orchestrator) /\ WF_vars(Background)

(***************************************************************************)
(* Properties of the pipeline (Spec, FairSpec).                            *)
(***************************************************************************)
ProducerBlocked == pc \in {"put_block", "put_final", "sentinels"} /\ Full(q)
WorkerBlockedOnPut(w) == wpc[w] = "put" /\ FullOut

\* C1 as stated: no reachable state has the producer blocked on q.put on a full
\* inbound queue while every worker that has not exited is blocked on oq.put
\* on a full outbound queue.
C1_NoDeadlock ==
    phase = "pool" =>
        ~(ProducerBlocked /\ \A w \in Workers : wpc[w] \notin {"exited", "ended"} => WorkerBlockedOnPut(w))

Count(t, x) == Cardinality({i \in 1..Len(t) : t[i] = x})
SameBag(t, u) == \A x \in Range(t) \cup Range(u) : Count(t, x) = Count(u, x)

\* the transform applied single-threaded to every element of the provider
SingleThreaded == process_batch(WORDS, REVERSE_WORDS, corpus).r

\* C2 as stated: at DONE the returned pairs are, as a multiset, the
\* single-threaded transform of every provider element: none lost, none duplicated.
C2_SameMultiset == pc = "done" => SameBag(pairs, SingleThreaded)

\* C3: once the provider is exhausted and every worker has taken its sentinel,
\* the orchestrator leaves the last loop and reaches DONE, and the count of
\* consecutive idle polling cycles never exceeds IdleChecks + 1.
C3_ReachesDone ==
    /\ [](empty_checks <= IdleChecks + 1)
    /\ (phase = "pool" /\ provider = <<>> /\ AllExited) ~> (pc = "done")

\* C6 as stated: the output side of every pair follows prepare_pair_data's
\* reverse flag: identical to the input side when it is false, its
\* character-reversal when it is true.
C6_OutputFollowsFlag ==
    \A i \in 1..Len(pairs) :
        pairs[i][2] = IF reverse THEN reversed(pairs[i][1]) ELSE pairs[i][1]

(***************************************************************************)
(* NormSpec: normalize_string called on a string, then on its own result.  *)
(***************************************************************************)
NormAlphabet == {"a", "A", "1", "_", " ", "\t", ".", "'", "-", "U+00C9", "U+0301"}

NormInit ==
    /\ phase = "start"
    /\ MIN_LENGTH = 0 /\ MAX_LENGTH = 2 /\ reverse = FALSE /\ vocabulary_size = 3
    /\ corpus = <<>>
    /\ line \in SeqsUpTo(NormAlphabet, MaxNorm)
    /\ ret = None /\ lang = NoLang /\ query = None
    /\ NoVocab /\ NoPipe /\ NoExt

\* normalize_string(line)
NormalizeCall ==
    /\ phase = "start"
    /\ ret' = PyStr(normalize_string(line))
    /\ phase' = "normalized"
    /\ UNCHANGED <<extvars, confvars, vocabvars, line, lang, query, pipevars>>

\* normalize_string applied to what the first call returned
NormalizeAgain ==
    /\ phase = "normalized"
    /\ query' = ret
    /\ ret' = PyStr(normalize_string(ret.val))
    /\ phase' = "renormalized"
    /\ UNCHANGED <<extvars, confvars, vocabvars, line, lang, pipevars>>

NormNext == NormalizeCall \/ NormalizeAgain

NormSpec == NormInit /\ [][NormNext]_vars

\* C11: normalize_string is idempotent: normalizing the result of
\* normalize_string(s) returns it unchanged, for every string s.
C11_Idempotent == phase = "renormalized" => ret = query

\* a second call on a result that differs from the raw string, which held an
\* accented capital, punctuation and a tab
C11_Witness ==
    /\ phase = "renormalized"
    /\ query.val # line /\ query.val # <<>>
    /\ \E i \in 1..Len(line) : line[i] \in {".", "\t", "U+00C9"}
    /\ \E i \in 1..Len(query.val) : query.val[i] = " "

(***************************************************************************)
(* AFSpec: AFDataSplit, the record provider of the audio-feature variant.  *)
(***************************************************************************)
NameError == [py |-> "NameError", val |-> <<>>]
ValueError == [py |-> "ValueError", val |-> <<>>]

\* the names the module binds at top level with import (lines 5-21); json is
\* imported only inside AFDataSplit.__init__ (line 107)
ModuleImports ==
    {"time", "os", "Queue", "mp", "pickle", "Enum", "np", "re", "sys",
     "unidecode", "unicodedata", "collections", "pd"}

\* whether a function with these local names can read the name
Bound(name, locals) == name \in locals \cup ModuleImports

\* row.audio_features: the text of a feature map, text that is no JSON, or None
GoodFeatures == [py |-> "str", parses |-> TRUE,
                 items |-> [k \in {"energy", "id", "tempo"} |->
                               CASE k = "energy" -> 5 [] k = "id" -> 9 [] k = "tempo" -> 7]]
BadFeatures == [py |-> "str", parses |-> FALSE, items |-> <<>>]
NoFeatures == [py |-> "None", parses |-> FALSE, items |-> <<>>]

\* line 109
ignore_keys == {"analysis_url", "duration_ms", "id", "track_href", "type", "uri"}

\* sorted(conditions.items()) over the keys of the sample feature map
SortedKeys == <<"energy", "id", "tempo">>

\* AFDataSplit.encode_conditions
encode_conditions(conditions) ==
    LET keys == SelectSeq(SortedKeys, LAMBDA k : k \in DOMAIN conditions /\ k \notin ignore_keys)
    IN  [i \in 1..Len(keys) |-> conditions[keys[i]]]

\* np.zeros(n)
zeros(n) == IF n < 0 THEN ValueError ELSE [py |-> "array", val |-> [i \in 1..n |-> 0]]

\* lines 125-129: the try statement of read_json_gen for one row. The name json
\* is read first, in the try body and again in the except clause.
row_features(self, row) ==
    IF ~Bound("json", {"self", "i", "row", "fs", "sent"}) THEN NameError
    ELSE IF row.audio_features.py = "None" THEN AttributeError
    ELSE IF ~row.audio_features.parses THEN zeros(self.n_conditions)
    ELSE [py |-> "array", val |-> encode_conditions(row.audio_features.items)]

IsError(v) == v.py \in {"NameError", "AttributeError", "ValueError"}

AFSentences == {<<>>, <<PyStr(<<"a", " ", "b">>)>>, <<PyStr(<<"a", " ", "b">>), PyStr(<<"b">>)>>}
AFRows == [audio_features : {GoodFeatures, BadFeatures, NoFeatures},
           content_sentences : AFSentences]

\* the instance as DataSplit.__init__ leaves it (lines 34-38)
AFInit ==
    /\ phase = "start"
    /\ MIN_LENGTH = 1 /\ MAX_LENGTH = 3 /\ reverse = FALSE /\ vocabulary_size = 4
    /\ corpus = <<>>
    /\ df \in SeqsUpTo(AFRows, MaxRows)
    /\ af = [pc |-> "new", n_conditions |-> -1, i |-> 1, err |-> None]
    /\ yielded = <<>> /\ cache = NoCache
    /\ NoVocab /\ NoCall /\ NoPipe

\* lines 107-113, the rest of AFDataSplit.__init__: line 110 reads the name df
AFConstruct ==
    /\ af.pc = "new"
    /\ af' = IF ~Bound("df", {"self", "filename", "data_type", "json"})
             THEN [af EXCEPT !.pc = "init_raised", !.err = NameError]
             ELSE [af EXCEPT !.pc = "built",
                             !.n_conditions = IF df = <<>> THEN -1
                                 ELSE Len(encode_conditions(df[1].audio_features.items))]
    /\ UNCHANGED <<phase, confvars, vocabvars, callvars, pipevars, df, yielded, cache>>

\* lines 124-131: read_json_gen takes the next row, computes fs and yields every
\* sentence of the row with it; an exception ends the generator
AFRow ==
    /\ af.pc \in {"new", "built", "iter"}
    /\ af.i <= Len(df)
    /\ LET row == df[af.i]
           fs == row_features(af, row)
       IN  IF IsError(fs)
           THEN /\ af' = [af EXCEPT !.pc = "raised", !.err = fs]
                /\ UNCHANGED yielded
           ELSE /\ af' = [af EXCEPT !.pc = "iter", !.i = af.i + 1]
                /\ yielded' = yielded \o [k \in 1..Len(row.content_sentences) |->
                                            <<row.content_sentences[k], fs>>]
    /\ UNCHANGED <<phase, confvars, vocabvars, callvars, pipevars, df, cache>>

\* line 124: no row is left
AFStop ==
    /\ af.pc \in {"new", "built", "iter"}
    /\ af.i > Len(df)
    /\ af' = [af EXCEPT !.pc = "exhausted"]
    /\ UNCHANGED <<phase, confvars, vocabvars, callvars, pipevars, df, yielded, cache>>

AFNext == AFConstruct \/ AFRow \/ AFStop

AFSpec == AFInit /\ [][AFNext]_vars

\* what the claim says the provider yields: every sentence of every row, with
\* the encoded features, or n zeros when the metadata cannot be parsed
RECURSIVE AsStatedYield(_, _)
AsStatedYield(rows, n) ==
    IF rows = <<>> THEN <<>>
    ELSE LET row == Head(rows)
             fs == IF row.audio_features.parses
                   THEN [py |-> "array", val |-> encode_conditions(row.audio_features.items)]
                   ELSE [py |-> "array", val |-> [i \in 1..n |-> 0]]
         IN  [k \in 1..Len(row.content_sentences) |-> <<row.content_sentences[k], fs>>]
             \o AsStatedYield(Tail(rows), n)

\* C12 as stated: no error escapes the audio-feature provider, and a record
\* whose metadata cannot be parsed yields each of its sentences with a zero
\* vector of length n_conditions before the provider goes on to the next record.
C12_RecoversLocally ==
    (\E i \in 1..Len(df) : ~df[i].audio_features.parses) =>
        /\ af.pc \notin {"init_raised", "raised"}
        /\ af.err = None
        /\ af.pc = "exhausted" => yielded = AsStatedYield(df, af.n_conditions)

(***************************************************************************)
(* More properties of the pipeline (Spec).                                 *)
(***************************************************************************)
Exited == {w \in Workers : wpc[w] \in {"exited", "ended"}}
AfterSentinels == pc \in {"finalize", "fin_drain", "fin_elif", "join", "done"}

\* C13: one sentinel per worker is put on the inbound queue, after every data
\* batch; every sentinel taken off the queue made one worker leave its loop
\* (none was processed as data) and no worker took two; once every worker has
\* exited no sentinel is left, and at DONE all have exited.
C13_OneSentinelPerWorker ==
    phase = "pool" =>
        /\ sent <= n_core
        /\ Count(q, None) + Cardinality(Exited) = sent
        /\ AfterSentinels => sent = n_core
        /\ ~AfterSentinels /\ pc # "sentinels" => sent = 0
        /\ \A i \in 1..Len(q) : q[i] = None => \A j \in i..Len(q) : q[j] = None
        /\ AllExited => Count(q, None) = 0
        /\ pc = "done" => AllExited

\* DONE with two workers, both exited, after a run that produced pairs
C13_Witness ==
    /\ pc = "done" /\ n_core = 2 /\ sent = 2
    /\ Cardinality(Exited) = 2 /\ q = <<>>
    /\ pairs # <<>>

\* C14 as stated: the inbound queue never receives an empty batch, also when
\* the provider yields nothing or its last element completed a full batch.
C14_NoEmptyBatch ==
    phase = "pool" => \A i \in 1..Len(q) : q[i] # None => q[i].val # <<>>

\* C15: the last loop is left only with more than IdleChecks idle polls
\* counted since the last successful receive; every successful receive from
\* the outbound queue in that loop sets the counter to zero; and the counter
\* grows only by one, in a poll that observes the outbound queue empty.
C15_IdleCounter ==
    [][ /\ (pc # "join" /\ pc' = "join") => empty_checks > IdleChecks
        /\ (AfterSentinels /\ Len(pairs') > Len(pairs)) => empty_checks' = 0
        /\ (AfterSentinels /\ Len(oq') < Len(oq)) => empty_checks' = 0
        /\ (AfterSentinels /\ empty_checks' # empty_checks) =>
               \/ empty_checks' = 0 /\ Len(oq') < Len(oq)
               \/ empty_checks' = empty_checks + 1 /\ oq = <<>> /\ oq' = <<>>
      ]_vars

\* the loop left after IdleChecks + 1 idle polls in a run whose only batch was
\* the final one, so that its pairs were received, and the counter reset, inside
\* the last loop
C15_Witness ==
    /\ pc = "join" /\ empty_checks = IdleChecks + 1
    /\ Len(corpus) = 1 /\ pairs # <<>>

\* C16 as stated: the WORDS and REVERSE_WORDS tables a worker sees keep the key
\* set and the values they had when the pool started, whatever it has looked up.
C16_TablesUnchanged ==
    phase = "pool" =>
        \A w \in Workers : wWORDS[w] = WORDS /\ wREVERSE_WORDS[w] = REVERSE_WORDS

\* C17 as stated: for every raw line, _setup_vocab counts the line's words if
\* and only if proc_line emits a pair for the line.
C17_SameFilter ==
    phase = "called" =>
        (count_words(EmptyCounter, <<PlainElem(line)>>) # EmptyCounter <=> ret # None)

(***************************************************************************)
(* CacheSpec: the vocabulary part of prepare_pair_data (lines 452-486), run *)
(* again and again on the same corpus file with the same tmp_path.         *)
(***************************************************************************)
CacheInit ==
    /\ phase = "start"
    /\ \E b \in LengthBounds : MIN_LENGTH = b[1] /\ MAX_LENGTH = b[2]
    /\ reverse = FALSE
    /\ vocabulary_size \in 3..MaxVocab
    /\ corpus \in SeqsUpTo({PlainElem(l) : l \in SampleLines}, MaxCorpus)
    /\ NoVocab /\ NoCall /\ NoPipe /\ NoExt

\* lines 452-455: a run of prepare_pair_data starts and assigns the globals
\* from its arguments; phase "start" is the first run, with the arguments of
\* the initial state
PrepareStart ==
    /\ phase \in {"start", "vocab"}
    /\ \E b \in LengthBounds : MIN_LENGTH' = b[1] /\ MAX_LENGTH' = b[2]
    /\ vocabulary_size' \in 3..MaxVocab
    /\ phase = "start" =>
           MIN_LENGTH' = MIN_LENGTH /\ MAX_LENGTH' = MAX_LENGTH
           /\ vocabulary_size' = vocabulary_size
    /\ phase' = "prepare"
    /\ UNCHANGED <<reverse, corpus, vocabvars, callvars, pipevars, extvars>>

\* lines 473-478: no cache file: _setup_vocab, then pickle.dump of both tables
VocabCacheMiss ==
    /\ phase = "prepare" /\ cache = NoCache
    /\ the_words' = build_the_words(corpus, vocabulary_size)
    /\ WORDS' = table_of(the_words')
    /\ REVERSE_WORDS' = table_of(build_the_reverse_words(corpus, vocabulary_size))
    /\ cache' = PyTuple(<<WORDS', REVERSE_WORDS'>>)
    /\ phase' = "vocab"
    /\ UNCHANGED <<confvars, callvars, pipevars, df, af, yielded>>

\* lines 479-485: the cache file exists: both tables are what pickle.load returns
VocabCacheHit ==
    /\ phase = "prepare" /\ cache # NoCache
    /\ WORDS' = cache.val[1]
    /\ REVERSE_WORDS' = cache.val[2]
    /\ phase' = "vocab"
    /\ UNCHANGED <<confvars, the_words, callvars, pipevars, extvars>>

CacheNext == PrepareStart \/ VocabCacheMiss \/ VocabCacheHit

CacheSpec == CacheInit /\ [][CacheNext]_vars

\* C18 as stated: after any sequence of runs on the same corpus file, the
\* tables the workers of a run are forked with have at most that run's
\* vocabulary_size entries and are the tables _setup_vocab computes from the
\* run's vocabulary_size and length bounds.
C18_VocabularyOfTheRun ==
    phase = "vocab" =>
        /\ Cardinality(DOMAIN WORDS) <= vocabulary_size
        /\ WORDS = table_of(build_the_words(corpus, vocabulary_size))
        /\ REVERSE_WORDS = table_of(build_the_reverse_words(corpus, vocabulary_size))

\* C19: a worker puts on the outbound queue only a batch with at least one
\* survivor: the outbound queue never holds an empty list, and a worker is
\* at oq.put only with a non-empty result, so a batch whose every element was
\* rejected causes no outbound push.
C19_NoEmptyOutboundBatch ==
    phase = "pool" =>
        /\ \A i \in 1..Len(oq) : oq[i] # <<>>
        /\ \A w \in Workers : \A i \in 1..Len(wbuf[w]) : wbuf[w][i] # <<>>
        /\ \A w \in Workers : wpc[w] = "put" => wr[w] # <<>>

\* a full block of rejected lines has been taken and processed, every worker is
\* back at q.get() and nothing was put on the outbound queue
C19_Witness ==
    /\ phase = "pool" /\ pc = "stream"
    /\ Len(corpus) = block_size + 1 /\ SingleThreaded = <<>>
    /\ provider = <<>> /\ curr_block = <<>> /\ q = <<>>
    /\ \A w \in Workers : wpc[w] = "get"
    /\ oq = <<>> /\ pairs = <<>>

\* C20: once every worker has taken its sentinel the inbound queue holds no
\* data batch: every batch put on it was taken by a worker before the last
\* worker left its loop.
C20_NoBatchLeftBehind ==
    (phase = "pool" /\ AllExited) => \A i \in 1..Len(q) : q[i] = None

\* two workers have both exited after a run in which several blocks were put
\* on the inbound queue and the last loop is still polling
C20_Witness ==
    /\ phase = "pool" /\ n_core = 2 /\ AllExited
    /\ Len(corpus) >= 2 * (block_size + 1)
    /\ pc = "finalize" /\ q = <<>>

====
